---- MODULE Spec2Model ----
(***************************************************************************)
(* HtmlParser (src/src/parser/HtmlParser.ts): the style cascade and the    *)
(* stack-based tree builder that turns the tokenizer's open/text/close     *)
(* events into a forest of RenderNodes.                                    *)
(*                                                                         *)
(* Encoding.  A style text is the sequence of its `selector { body }`      *)
(* blocks; a body or an inline style attribute is the sequence of its      *)
(* ';'-separated declarations; a declaration is the sequence of its        *)
(* ':'-separated, trimmed parts.  A selector is its leading sigil          *)
(* (".", "#" or none) and the rest.  A text is a sequence of characters.   *)
(* Numbers in a style map are written as the text JavaScript prints for    *)
(* them ("12", "NaN"), so that every style value is a string.  A JavaScript*)
(* object is the sequence of its entries in insertion order.  Nodes and    *)
(* style maps are objects with identity: a node is an index of `heap`, a   *)
(* style map an index of `styleObjs`.  The style texts considered are      *)
(* those the two regular expressions split as written: every block has a   *)
(* selector and a body of at least one declaration, and no <style> block   *)
(* holds a closing style tag.                                              *)
(***************************************************************************)
EXTENDS Integers, Sequences, FiniteSets, TLC

\* ---------------------------------------------------------------- bounds
\* Most nodes one conversion creates in the tree-builder specification.
MaxNodes == 3
\* Most unsupported, non-void tags open at once (bookkeeping of the claims).
MaxUnsupported == 1
\* Most elements one conversion creates in the cascade specification.
MaxCascadeNodes == 1
\* Most nodes one conversion creates in the concurrent specification.
MaxConcurrentNodes == 2

\* ---------------------------------------------------------------- values
\* JavaScript's undefined, where a string is expected (attribs.id, attribs.src).
Undefined == "<undefined>"

\* The characters the regular expression class \s matches.
Whitespace == {" ", "\n", "\r", "\t", "\f"}

\* The characters of the class [\n\r\t].
LineBreaks == {"\n", "\r", "\t"}

\* attribs.k, or undefined.
Attr(attribs, k) == IF k \in DOMAIN attribs THEN attribs[k] ELSE Undefined

\* A string is truthy when it is defined and not empty.
Truthy(s) == s # Undefined /\ s # ""

\* parseFloat(value), printed: the longest numeric prefix, else NaN.
parseFloat(value) ==
  CASE value \in {"5", "5px"} -> "5"
    [] value \in {"10", "10px"} -> "10"
    [] value \in {"20", "20px", "20.0"} -> "20"
    [] value \in {"0", "0px"} -> "0"
    [] OTHER -> "NaN"

\* { ...a, ...b }: a new map with b's properties laid over a's.
Spread(a, b) ==
  [p \in (DOMAIN a) \cup (DOMAIN b) |-> IF p \in DOMAIN b THEN b[p] ELSE a[p]]

\* The empty object {}.
EmptyObj == [p \in {} |-> ""]

\* styles.p = v
Put(styles, p, v) == [q \in (DOMAIN styles) \cup {p} |-> IF q = p THEN v ELSE styles[q]]

\* ---------------------------------------------------------------- styles
\* const [key, value] = rule.split(':').map(s => s.trim());
DeclKey(decl) == IF Len(decl) >= 1 THEN decl[1] ELSE ""
DeclValue(decl) == IF Len(decl) >= 2 THEN decl[2] ELSE ""

\* One pass of the forEach body of parseStyles.
parseStyleRule(styles, rule) ==
  LET key == DeclKey(rule)
      value == DeclValue(rule)
  IN IF key = "" \/ value = "" THEN styles
     ELSE CASE key = "font-size" -> Put(styles, "fontSize", parseFloat(value))
            [] key = "color" -> Put(styles, "color", value)
            [] key = "text-align" -> Put(styles, "textAlign", value)
            [] key = "font-weight" ->
                 Put(styles, "fontWeight", IF value = "bold" THEN "bold" ELSE "normal")
            [] key = "margin-top" -> Put(styles, "marginTop", parseFloat(value))
            [] key = "margin-bottom" -> Put(styles, "marginBottom", parseFloat(value))
            [] key = "margin" ->
                 Put(Put(styles, "marginTop", parseFloat(value)),
                     "marginBottom", parseFloat(value))
            [] key = "background-color" -> Put(styles, "backgroundColor", value)
            [] key = "border-bottom" -> Put(styles, "borderBottom", value)
            [] key = "padding" -> Put(styles, "padding", parseFloat(value))
            [] key = "width" -> Put(styles, "width", value)
            [] OTHER -> styles

RECURSIVE parseStylesFrom(_, _)
parseStylesFrom(styles, rules) ==
  IF rules = <<>> THEN styles
  ELSE parseStylesFrom(parseStyleRule(styles, Head(rules)), Tail(rules))

\* parseStyles(styleStr): an absent or empty attribute has no declarations.
parseStyles(styleStr) == parseStylesFrom(EmptyObj, styleStr)

\* declarations[key] = value on an object kept as its entries in insertion order.
RECURSIVE ObjSet(_, _, _)
ObjSet(obj, key, value) ==
  IF obj = <<>> THEN << <<key, value>> >>
  ELSE IF Head(obj)[1] = key THEN << <<key, value>> >> \o Tail(obj)
  ELSE << Head(obj) >> \o ObjSet(Tail(obj), key, value)

\* The forEach of parseCss over the declarations of one block.
RECURSIVE parseDeclarations(_, _)
parseDeclarations(declarations, decls) ==
  IF decls = <<>> THEN declarations
  ELSE LET key == DeclKey(Head(decls))
           value == DeclValue(Head(decls))
       IN parseDeclarations(
            IF key # "" /\ value # "" THEN ObjSet(declarations, key, value)
            ELSE declarations,
            Tail(decls))

\* parseCss(css): one [selector, declarations] rule per block, in block order.
parseCss(css) ==
  [i \in 1..Len(css) |->
     [selector |-> css[i].selector,
      declarations |-> parseDeclarations(<<>>, css[i].body)]]

\* The text of every <style> block of the markup, in order of appearance.
RECURSIVE extractStyleTags(_)
extractStyleTags(html) ==
  IF html = <<>> THEN <<>> ELSE Head(html) \o extractStyleTags(Tail(html))

\* [inlineStyles, css || ''].filter(s => s.trim()).join('\n')
allCssExternalFirst(html, css) == css \o extractStyleTags(html)
allCss(html, css) == extractStyleTags(html) \o css

\* matchesSelector(selector, tagName, classNames, id)
matchesSelector(selector, tagName, classNames, id) ==
  IF selector.sigil = "."
    THEN \E i \in 1..Len(classNames) : classNames[i] = selector.name
  ELSE IF selector.sigil = "#"
    THEN id = selector.name
  ELSE selector.name = tagName

\* Object.entries(declarations).map(([key, value]) => `${key}: ${value}`).join(';'),
\* as parseStyles splits it again.
joinDeclarations(declarations) ==
  [i \in 1..Len(declarations) |-> <<declarations[i][1], declarations[i][2]>>]

\* The loop of applyCssRules over the rules from index i on.
RECURSIVE applyCssRulesFromFirstWins(_, _, _, _, _, _)
applyCssRulesFromFirstWins(rules, i, appliedStyles, tagName, classNames, id) ==
  IF i > Len(rules) THEN appliedStyles
  ELSE applyCssRulesFromFirstWins(rules, i + 1,
         IF matchesSelector(rules[i].selector, tagName, classNames, id)
           THEN Spread(parseStyles(joinDeclarations(rules[i].declarations)), appliedStyles)
           ELSE appliedStyles,
         tagName, classNames, id)

RECURSIVE applyCssRulesFrom(_, _, _, _, _, _)
applyCssRulesFrom(rules, i, appliedStyles, tagName, classNames, id) ==
  IF i > Len(rules) THEN appliedStyles
  ELSE applyCssRulesFrom(rules, i + 1,
         IF matchesSelector(rules[i].selector, tagName, classNames, id)
           THEN Spread(appliedStyles, parseStyles(joinDeclarations(rules[i].declarations)))
           ELSE appliedStyles,
         tagName, classNames, id)

\* applyCssRules(tagName, classNames, id), reading the rule list `rules`.
applyCssRulesFirstWins(rules, tagName, classNames, id) ==
  applyCssRulesFromFirstWins(rules, 1, EmptyObj, tagName, classNames, id)
applyCssRules(rules, tagName, classNames, id) ==
  applyCssRulesFrom(rules, 1, EmptyObj, tagName, classNames, id)

\* getUserAgentStyles(tagName)
getUserAgentStyles(tagName) ==
  LET s == [fontSize |-> "12", fontFamily |-> "body", fontWeight |-> "normal",
            color |-> "#000000", textAlign |-> "left",
            marginTop |-> "0", marginBottom |-> "0"]
  IN CASE tagName = "h1" ->
            [s EXCEPT !.fontSize = "24", !.fontWeight = "bold", !.marginBottom = "10"]
       [] tagName = "h2" ->
            [s EXCEPT !.fontSize = "20", !.fontWeight = "bold", !.marginBottom = "10"]
       [] tagName = "h3" ->
            [s EXCEPT !.fontSize = "18", !.fontWeight = "bold", !.marginBottom = "8"]
       [] tagName = "p" -> [s EXCEPT !.marginBottom = "10"]
       [] OTHER -> s

\* isVoidElement(tagName)
isVoidElementFormOnly(tagName) == tagName \in {"hr", "input"}
isVoidElement(tagName) == tagName \in {"img", "br", "hr", "input"}

\* ----------------------------------------------------------------- nodes
\* const finalStyles = { ...baseStyles, ...cssStyles, ...inlineStyles };
mergeStylesRulesLast(baseStyles, cssStyles, inlineStyles) ==
  Spread(Spread(baseStyles, inlineStyles), cssStyles)
mergeStyles(baseStyles, cssStyles, inlineStyles) ==
  Spread(Spread(baseStyles, cssStyles), inlineStyles)

\* The styles createNode resolves before it looks at the tag.
finalStylesOf(rules, tagName, attribs) ==
  LET baseStyles == getUserAgentStyles(tagName)
      classNames == IF "class" \in DOMAIN attribs THEN attribs.class ELSE <<>>
      id == Attr(attribs, "id")
      cssStyles == applyCssRules(rules, tagName, classNames, id)
      inlineStyles == parseStyles(IF "style" \in DOMAIN attribs THEN attribs.style ELSE <<>>)
  IN mergeStyles(baseStyles, cssStyles, inlineStyles)

\* A RenderNode the factory returns; styles is still the map, not yet an object.
NewNode(type, styles, src, hasChildren) ==
  [created |-> TRUE, type |-> type, styles |-> styles, src |-> src,
   hasChildren |-> hasChildren]

\* Line 130, "adjust styles for semantic tags": strong and b are bold.
adjustSemanticDefault(tagName, finalStyles) ==
  IF tagName \in {"strong", "b"} /\ "fontWeight" \notin DOMAIN finalStyles
    THEN Put(finalStyles, "fontWeight", "bold") ELSE finalStyles
adjustSemantic(tagName, finalStyles) ==
  IF tagName \in {"strong", "b"}
    THEN Put(finalStyles, "fontWeight", "bold") ELSE finalStyles

\* createNode(tagName, attribs), reading the rule list `rules`; null is created = FALSE.
createNode(rules, tagName, attribs) ==
  LET finalStyles == finalStylesOf(rules, tagName, attribs)
      width == Attr(attribs, "width")
      cellpadding == Attr(attribs, "cellpadding")
      align == Attr(attribs, "align")
      withWidth(s) == IF Truthy(width) THEN Put(s, "width", width) ELSE s
  IN CASE tagName = "br" -> NewNode("break", finalStyles, Undefined, FALSE)
       [] tagName = "img" -> NewNode("image", finalStyles, Attr(attribs, "src"), FALSE)
       [] tagName = "table" ->
            NewNode("table",
                    LET s == withWidth(finalStyles)
                    IN IF Truthy(cellpadding)
                         THEN Put(s, "padding", parseFloat(cellpadding)) ELSE s,
                    Undefined, TRUE)
       [] tagName \in {"thead", "tbody"} -> NewNode("block", finalStyles, Undefined, TRUE)
       [] tagName = "tr" -> NewNode("row", finalStyles, Undefined, TRUE)
       [] tagName \in {"td", "th"} ->
            NewNode("cell",
                    withWidth(IF Truthy(align)
                                THEN Put(finalStyles, "textAlign", align)
                                ELSE finalStyles),
                    Undefined, TRUE)
       [] tagName \in {"h1", "h2", "h3", "h4", "h5", "h6", "p", "div"} ->
            NewNode("block", finalStyles, Undefined, TRUE)
       [] tagName \in {"span", "strong", "b", "em", "i"} ->
            NewNode("block", adjustSemantic(tagName, finalStyles), Undefined, TRUE)
       [] OTHER -> [created |-> FALSE]

\* ---------------------------------------------------------- tree builder
\* The locals of one parse() call and the objects it has allocated: B.rootNodes and
\* B.stack hold node references (indices of B.heap); a node's styles is a reference
\* to a style map (an index of B.styleObjs).  B.threw: a handler has read a property
\* of undefined, and the TypeError has left parse.
EmptyBuilder == [rootNodes |-> <<>>, stack |-> <<>>, heap |-> <<>>, styleObjs |-> <<>>,
                 threw |-> FALSE]

\* parent.children.push(node), creating the array when the parent has none.
pushChildFirst(heap, parent, node) ==
  [heap EXCEPT ![parent].children = <<node>> \o @, ![parent].hasChildren = TRUE]
pushChild(heap, parent, node) ==
  [heap EXCEPT ![parent].children = Append(@, node), ![parent].hasChildren = TRUE]

\* onopentag, lines 27-33: the node goes to the stack top's children, else to the roots.
attachAlsoToRoot(B, node) ==
  IF Len(B.stack) > 0
    THEN [B EXCEPT !.heap = pushChild(@, B.stack[Len(B.stack)], node),
                   !.rootNodes = Append(@, node)]
    ELSE [B EXCEPT !.rootNodes = Append(@, node)]
attach(B, node) ==
  IF Len(B.stack) > 0
    THEN [B EXCEPT !.heap = pushChild(@, B.stack[Len(B.stack)], node)]
    ELSE [B EXCEPT !.rootNodes = Append(@, node)]

\* onopentag, lines 24-40: the node of the element, attached and pushed.
openElement(B, rules, name, attribs) ==
  LET made == createNode(rules, name, attribs)
  IN IF ~made.created THEN B
     ELSE LET node == Len(B.heap) + 1
              obj == Len(B.styleObjs) + 1
              allocated ==
                [B EXCEPT !.heap = Append(@, [type |-> made.type, styles |-> obj,
                                              text |-> <<>>, src |-> made.src,
                                              children |-> <<>>,
                                              hasChildren |-> made.hasChildren]),
                          !.styleObjs = Append(@, made.styles)]
              attached == attach(allocated, node)
          IN IF ~isVoidElement(name)
               THEN [attached EXCEPT !.stack = Append(@, node)]
               ELSE attached

\* onopentag(name, attribs)
onopentagStyleAsSpan(B, rules, name, attribs) ==
  openElement(B, rules, IF name = "style" THEN "span" ELSE name, attribs)
onopentag(B, rules, name, attribs) ==
  IF name = "style" THEN B ELSE openElement(B, rules, name, attribs)

\* text.replace(/[\n\r\t]+/g, ' ')
RECURSIVE replaceLineBreaks(_)
replaceLineBreaks(text) ==
  IF text = <<>> THEN <<>>
  ELSE IF Head(text) \in LineBreaks
    THEN LET rest == replaceLineBreaks(Tail(text))
         IN IF Len(text) >= 2 /\ text[2] \in LineBreaks THEN rest ELSE <<" ">> \o rest
  ELSE <<Head(text)>> \o replaceLineBreaks(Tail(text))

\* text.replace(/\s+/g, ' ')
RECURSIVE replaceWhitespacePairs(_)
replaceWhitespacePairs(text) ==
  IF text = <<>> THEN <<>>
  ELSE IF Len(text) >= 2 /\ text[1] \in Whitespace /\ text[2] \in Whitespace
    THEN <<" ">> \o replaceWhitespacePairs(SubSeq(text, 3, Len(text)))
  ELSE <<Head(text)>> \o replaceWhitespacePairs(Tail(text))
RECURSIVE replaceWhitespace(_)
replaceWhitespace(text) ==
  IF text = <<>> THEN <<>>
  ELSE IF Head(text) \in Whitespace
    THEN LET rest == replaceWhitespace(Tail(text))
         IN IF Len(text) >= 2 /\ text[2] \in Whitespace THEN rest ELSE <<" ">> \o rest
  ELSE <<Head(text)>> \o replaceWhitespace(Tail(text))

\* cleanText, line 48
cleanTextLineBreaksOnly(text) == replaceLineBreaks(text)
cleanText(text) == replaceWhitespace(replaceLineBreaks(text))

\* cleanText.trim().length > 0
notBlank(text) == \E i \in 1..Len(text) : text[i] \notin Whitespace

\* styles: { ...parent.styles }: a new style map object holding the parent's properties.
inheritStylesShared(B, parent) == [styleObjs |-> B.styleObjs, obj |-> B.heap[parent].styles]
inheritStyles(B, parent) ==
  [styleObjs |-> Append(B.styleObjs, B.styleObjs[B.heap[parent].styles]),
   obj |-> Len(B.styleObjs) + 1]

\* ontext, lines 44-57: the text node under `parent`, stack[stack.length - 1], which
\* is undefined (0) on an empty stack: parent.styles of line 53 then throws.
appendText(B, parent, text) ==
  IF notBlank(cleanText(text))
    THEN IF parent = 0 THEN [B EXCEPT !.threw = TRUE] ELSE
         LET inherited == inheritStyles(B, parent)
             textNode == Len(B.heap) + 1
         IN [B EXCEPT !.styleObjs = inherited.styleObjs,
                      !.heap = pushChild(
                                 Append(@, [type |-> "text", styles |-> inherited.obj,
                                            text |-> cleanText(text), src |-> Undefined,
                                            children |-> <<>>, hasChildren |-> FALSE]),
                                 parent, textNode)]
    ELSE B

\* ontext(text)
ontextKeepsRootText(B, text) ==
  IF Len(B.stack) > 0 THEN appendText(B, B.stack[Len(B.stack)], text)
  ELSE IF notBlank(cleanText(text))
    THEN [B EXCEPT !.styleObjs = Append(@, EmptyObj),
                   !.heap = Append(@, [type |-> "text", styles |-> Len(B.styleObjs) + 1,
                                       text |-> cleanText(text), src |-> Undefined,
                                       children |-> <<>>, hasChildren |-> FALSE]),
                   !.rootNodes = Append(@, Len(B.heap) + 1)]
  ELSE B
ontextUnguarded(B, text) ==
  appendText(B, IF Len(B.stack) > 0 THEN B.stack[Len(B.stack)] ELSE 0, text)
ontext(B, text) ==
  IF Len(B.stack) > 0 THEN appendText(B, B.stack[Len(B.stack)], text) ELSE B

\* onclosetag(name)
onclosetagAnyButStyle(B, name) ==
  IF name # "style"
    THEN [B EXCEPT !.stack = IF Len(@) > 0 THEN SubSeq(@, 1, Len(@) - 1) ELSE @]
    ELSE B
onclosetag(B, name) ==
  IF ~isVoidElement(name) /\ name # "style"
    THEN [B EXCEPT !.stack = IF Len(@) > 0 THEN SubSeq(@, 1, Len(@) - 1) ELSE @]
    ELSE B

\* ------------------------------------------------------------------ state
\* The conversions (calls of HtmlParser.parse) the model follows.
Convs == {1, 2}

VARIABLES
  cssRules,   \* the static HtmlParser.cssRules, shared by every call of parse
  pc,         \* pc[c]: "idle" before parse is called, "parsing", "returned", or
              \* "threw" when an exception has left parse
  html,       \* html[c]: the markup argument, as the texts of its <style> blocks
  css,        \* css[c]: the css argument
  rootNodes,  \* rootNodes[c]: the local rootNodes of the call
  stack,      \* stack[c]: the local stack of the call
  heap,       \* heap[c]: the RenderNodes the call has created
  styleObjs,  \* styleObjs[c]: the style map objects the call has created
  origin,     \* origin[c][n]: the tag, attributes and rule list node n was resolved from
  elided,     \* elided[c]: the builder run on the events of supported tags only
  rootOpens,  \* rootOpens[c]: the nodes of supported opens that met an empty stack
  opens,      \* opens[c]: the number of supported open events so far
  wrappers,   \* wrappers[c]: the number of unsupported non-void tags now open
  last        \* last[c]: the latest event, when it fell inside an unsupported tag,
              \* opened a style tag or was the text that followed that open

vars == <<cssRules, pc, html, css, rootNodes, stack, heap, styleObjs,
          origin, elided, rootOpens, opens, wrappers, last>>

\* The builder state of conversion c.
Builder(c) == [rootNodes |-> rootNodes[c], stack |-> stack[c],
               heap |-> heap[c], styleObjs |-> styleObjs[c], threw |-> pc[c] = "threw"]

\* The tags the factory's table maps to a node kind (spec 4.5).
SupportedTags == {"br", "img", "table", "thead", "tbody", "tr", "td", "th",
                  "h1", "h2", "h3", "h4", "h5", "h6", "p", "div",
                  "span", "strong", "b", "em", "i"}

\* The void tags of the glossary.
VoidTags == {"br", "img", "hr", "input"}

\* A tag the factory has no node for; the style tag is the builder's own business.
Unsupported(name) == name \notin SupportedTags /\ name # "style"

NoEvent == [kind |-> "none", parent |-> 0, before |-> 0]

Init ==
  /\ cssRules = <<>>
  /\ pc = [c \in Convs |-> "idle"]
  /\ html = [c \in Convs |-> <<>>]
  /\ css = [c \in Convs |-> <<>>]
  /\ rootNodes = [c \in Convs |-> <<>>]
  /\ stack = [c \in Convs |-> <<>>]
  /\ heap = [c \in Convs |-> <<>>]
  /\ styleObjs = [c \in Convs |-> <<>>]
  /\ origin = [c \in Convs |-> <<>>]
  /\ elided = [c \in Convs |-> EmptyBuilder]
  /\ rootOpens = [c \in Convs |-> <<>>]
  /\ opens = [c \in Convs |-> 0]
  /\ wrappers = [c \in Convs |-> 0]
  /\ last = [c \in Convs |-> NoEvent]

\* The builder's four variables take the fields of B.
SetBuilder(c, B) ==
  /\ rootNodes' = [rootNodes EXCEPT ![c] = B.rootNodes]
  /\ stack' = [stack EXCEPT ![c] = B.stack]
  /\ heap' = [heap EXCEPT ![c] = B.heap]
  /\ styleObjs' = [styleObjs EXCEPT ![c] = B.styleObjs]

\* A handler that throws ends the call: parser.write does not catch.
Outcome(c, B) == pc' = [pc EXCEPT ![c] = IF B.threw THEN "threw" ELSE @]

\* No other call of parse is between its first and its last line: parse is
\* synchronous, and a single thread runs one call to its return.
Alone(c) == \A d \in Convs \ {c} : pc[d] # "parsing"

\* parse, lines 11-17: the rule list is parsed into the static field, the locals are
\* created empty.  The markup and the css are drawn from Inputs.
ParseBeginAccumulates(c, Inputs) ==
  /\ pc[c] = "idle"
  /\ \E in \in Inputs :
       /\ html' = [html EXCEPT ![c] = in.html]
       /\ css' = [css EXCEPT ![c] = in.css]
       /\ cssRules' = cssRules \o parseCss(allCss(in.html, in.css))
  /\ pc' = [pc EXCEPT ![c] = "parsing"]
  /\ SetBuilder(c, EmptyBuilder)
  /\ UNCHANGED <<origin, elided, rootOpens, opens, wrappers, last>>
ParseBegin(c, Inputs) ==
  /\ pc[c] = "idle"
  /\ \E in \in Inputs :
       /\ html' = [html EXCEPT ![c] = in.html]
       /\ css' = [css EXCEPT ![c] = in.css]
       /\ cssRules' = parseCss(allCss(in.html, in.css))
  /\ pc' = [pc EXCEPT ![c] = "parsing"]
  /\ SetBuilder(c, EmptyBuilder)
  /\ UNCHANGED <<origin, elided, rootOpens, opens, wrappers, last>>

\* The origin of the nodes heap h has beyond those of `known`.
OriginOf(known, h, entry) ==
  IF Len(h) > Len(known) THEN Append(known, entry) ELSE known

\* The tokenizer delivers an open event: onopentag(e.name, e.attribs).
OpenTag(c, Opens, maxNodes) ==
  /\ pc[c] = "parsing"
  /\ Len(heap[c]) < maxNodes
  /\ Len(elided[c].heap) < maxNodes
  /\ \E e \in Opens :
       LET B == onopentag(Builder(c), cssRules, e.name, e.attribs)
           wrapper == Unsupported(e.name) /\ e.name \notin VoidTags
       IN /\ wrapper => wrappers[c] < MaxUnsupported
          /\ SetBuilder(c, B)
          /\ Outcome(c, B)
          /\ origin' = [origin EXCEPT ![c] =
               OriginOf(@, B.heap, [tagName |-> e.name, attribs |-> e.attribs,
                                    rules |-> cssRules])]
          /\ elided' = [elided EXCEPT ![c] =
               IF Unsupported(e.name) THEN @
               ELSE onopentag(@, cssRules, e.name, e.attribs)]
          /\ rootOpens' = [rootOpens EXCEPT ![c] =
               IF e.name \in SupportedTags /\ stack[c] = <<>>
                 THEN Append(@, Len(heap[c]) + 1) ELSE @]
          /\ opens' = [opens EXCEPT ![c] =
               IF e.name \in SupportedTags /\ @ = 0 THEN 1 ELSE @]
          /\ wrappers' = [wrappers EXCEPT ![c] = IF wrapper THEN @ + 1 ELSE @]
          /\ last' = [last EXCEPT ![c] =
               IF wrappers[c] > 0 /\ e.name \in SupportedTags
                 THEN [kind |-> "open",
                       parent |-> IF elided[c].stack = <<>> THEN 0
                                  ELSE elided[c].stack[Len(elided[c].stack)],
                       before |-> Len(heap[c])]
               ELSE IF Unsupported(e.name)
                 THEN [kind |-> "unsupported", parent |-> 0, before |-> Len(heap[c])]
               ELSE IF e.name = "style"
                 THEN [kind |-> "style",
                       parent |-> IF stack[c] = <<>> THEN 0 ELSE stack[c][Len(stack[c])],
                       before |-> Len(heap[c])]
                 ELSE NoEvent]
  /\ UNCHANGED <<cssRules, html, css>>

\* The tokenizer delivers a text event: ontext(text).
Text(c, Texts, maxNodes) ==
  /\ pc[c] = "parsing"
  /\ Len(heap[c]) < maxNodes
  /\ Len(elided[c].heap) < maxNodes
  /\ \E text \in Texts :
       LET B == ontext(Builder(c), text)
       IN /\ SetBuilder(c, B)
          /\ Outcome(c, B)
          /\ origin' = [origin EXCEPT ![c] =
               OriginOf(@, B.heap, [tagName |-> "#text", attribs |-> EmptyObj,
                                    rules |-> <<>>])]
          /\ elided' = [elided EXCEPT ![c] = ontext(@, text)]
          /\ last' = [last EXCEPT ![c] =
               IF wrappers[c] > 0 /\ notBlank(text) /\ elided[c].stack # <<>>
                 THEN [kind |-> "text",
                       parent |-> elided[c].stack[Len(elided[c].stack)],
                       before |-> Len(heap[c])]
               ELSE IF last[c].kind = "style" /\ notBlank(text)
                 THEN [kind |-> "styletext",
                       parent |-> IF stack[c] = <<>> THEN 0 ELSE stack[c][Len(stack[c])],
                       before |-> Len(heap[c])]
                 ELSE NoEvent]
  /\ UNCHANGED <<cssRules, html, css, rootOpens, opens, wrappers>>

\* The tokenizer delivers a close event: onclosetag(name).
CloseTag(c, Names) ==
  /\ pc[c] = "parsing"
  /\ \E name \in Names :
       LET B == onclosetag(Builder(c), name)
           wrapper == Unsupported(name) /\ name \notin VoidTags
       IN /\ SetBuilder(c, B)
          /\ Outcome(c, B)
          /\ elided' = [elided EXCEPT ![c] =
               IF Unsupported(name) THEN @ ELSE onclosetag(@, name)]
          /\ wrappers' = [wrappers EXCEPT ![c] =
               IF wrapper /\ @ > 0 THEN @ - 1 ELSE @]
  /\ last' = [last EXCEPT ![c] = NoEvent]
  /\ UNCHANGED <<cssRules, html, css, origin, rootOpens, opens>>

\* parse, lines 68-70: the stream has ended and rootNodes is returned.
ParseEnd(c) ==
  /\ pc[c] = "parsing"
  /\ pc' = [pc EXCEPT ![c] = "returned"]
  /\ UNCHANGED <<cssRules, html, css, rootNodes, stack, heap, styleObjs,
                 origin, elided, rootOpens, opens, wrappers, last>>

\* ------------------------------------------------ the tree-builder inputs
Sel(sigil, name) == [sigil |-> sigil, name |-> name]
Block(selector, body) == [selector |-> selector, body |-> body]
El(name, attribs) == [name |-> name, attribs |-> attribs]

\* <style>div { color: green }</style> in the markup, no css argument.
TreeInputs ==
  { [html |-> << << Block(Sel("", "div"), << <<"color", "green">> >>) >> >>,
     css |-> <<>>] }

TreeOpens ==
  { El("div", EmptyObj),
    El("span", [style |-> << <<"color", "red">> >>]),
    El("br", EmptyObj),
    El("img", [src |-> "x.png"]),
    El("hr", EmptyObj),
    El("section", EmptyObj),
    El("style", EmptyObj) }

TreeTexts == { <<" ", "\n", "a", "\r", "\t", " ", "b", "\f">>, <<" ", "\n">> }

TreeCloses == {"div", "br", "hr", "section", "style"}

NextTree ==
  \/ Alone(1) /\ ParseBegin(1, TreeInputs)
  \/ OpenTag(1, TreeOpens, MaxNodes)
  \/ Text(1, TreeTexts, MaxNodes)
  \/ CloseTag(1, TreeCloses)
  \/ ParseEnd(1)

\* One conversion of an arbitrary event stream.
Spec == Init /\ [][NextTree]_vars

\* ------------------------------------------------------ the cascade inputs
\* p { color: blue }
RuleP == Block(Sel("", "p"), << <<"color", "blue">> >>)
\* .x { color: green; margin: 10px }
RuleX == Block(Sel(".", "x"), << <<"color", "green">>, <<"margin", "10px">> >>)
\* #i { font-weight: normal; color: navy; width: 50%; margin-top: 5px }
RuleI == Block(Sel("#", "i"), << <<"font-weight", "normal">>, <<"color", "navy">>,
                                 <<"width", "50%">>, <<"margin-top", "5px">> >>)

CascadeRules == {RuleP, RuleX, RuleI}

\* The style texts of at most two rules.
CascadeTexts ==
  {<<>>} \cup { <<r>> : r \in CascadeRules }
         \cup { <<r, q>> : r \in CascadeRules, q \in CascadeRules }

\* Markup with no, one or two <style> blocks, and a css argument of no, one or
\* two rules.
CascadeInputs ==
  { [html |-> h, css |-> t] :
      h \in {<<>>} \cup { <<t1>> : t1 \in CascadeTexts }
                   \cup { << <<r>>, <<q>> >> : r \in CascadeRules, q \in CascadeRules },
      t \in {<<>>} \cup { <<r>> : r \in CascadeRules }
                   \cup { <<RuleX, RuleP>>, <<RuleI, RuleX>> } }

CascadeOpens ==
  { El("div", EmptyObj),
    El("p", [class |-> <<"x">>]),
    El("p", [class |-> <<"y", "x">>, id |-> "i", style |-> << <<"color", "red">> >>]),
    El("h1", [id |-> "i", style |-> << <<"margin", "20px">>, <<"margin-top">>,
                                       <<"font-size", "big">> >>]),
    El("strong", [class |-> <<"x">>, style |-> << <<"font-weight", "normal">> >>]),
    El("b", [id |-> "i"]),
    El("table", [id |-> "i", width |-> "100", cellpadding |-> "5",
                 style |-> << <<"padding", "10px">> >>]),
    El("td", [class |-> <<"x">>, align |-> "center", width |-> "",
              style |-> << <<"text-align", "right">>, <<"width", "20px">> >>]),
    El("img", [src |-> "x.png", id |-> "i"]) }

NextCascade ==
  \/ Alone(1) /\ ParseBegin(1, CascadeInputs)
  \/ OpenTag(1, CascadeOpens, MaxCascadeNodes)
  \/ ParseEnd(1)

\* One conversion, of any of the style inputs, that resolves the styles of a few
\* elements.
SpecCascade == Init /\ [][NextCascade]_vars

\* --------------------------------------------------- the concurrent inputs
ConcurrentInputs ==
  { [html |-> << <<RuleP>> >>, css |-> <<>>],
    [html |-> <<>>, css |-> <<RuleX>>] }

ConcurrentOpens == { El("p", [class |-> <<"x">>]), El("br", EmptyObj) }

ConcurrentTexts == { <<"a">> }

ConcurrentCloses == { "p" }

NextConcurrent ==
  \E c \in Convs :
    \/ ParseBegin(c, ConcurrentInputs)
    \/ OpenTag(c, ConcurrentOpens, MaxConcurrentNodes)
    \/ Text(c, ConcurrentTexts, MaxConcurrentNodes)
    \/ CloseTag(c, ConcurrentCloses)
    \/ ParseEnd(c)

\* Two conversions in progress at once, the handling of their events interleaved:
\* each has its own locals, the static rule list is the one of the class.
SpecConcurrent == Init /\ [][NextConcurrent]_vars

\* ------------------------------------------------------- the output forest
\* Node n of builder B with everything it refers to: the RenderNode as a caller
\* of parse sees it.
RECURSIVE TreeOf(_, _)
TreeOf(B, n) ==
  [type |-> B.heap[n].type,
   styles |-> B.styleObjs[B.heap[n].styles],
   text |-> B.heap[n].text,
   src |-> B.heap[n].src,
   hasChildren |-> B.heap[n].hasChildren,
   children |-> [i \in 1..Len(B.heap[n].children) |-> TreeOf(B, B.heap[n].children[i])]]

Forest(B) == [i \in 1..Len(B.rootNodes) |-> TreeOf(B, B.rootNodes[i])]

\* The places node n is referenced from: <<0, i>> is position i of the root
\* sequence, <<m, i>> position i of node m's children.
Places(c, n) ==
  { <<0, i>> : i \in { j \in 1..Len(rootNodes[c]) : rootNodes[c][j] = n } }
  \cup UNION { { <<m, i>> : i \in { j \in 1..Len(heap[c][m].children) :
                                       heap[c][m].children[j] = n } } :
               m \in 1..Len(heap[c]) }

\* The nodes that have n among their children.
Parents(c, n) ==
  { m \in 1..Len(heap[c]) : \E i \in 1..Len(heap[c][m].children) :
                               heap[c][m].children[i] = n }

\* The nodes reached from the nodes of S by at most k child steps.
RECURSIVE Descendants(_, _, _)
Descendants(c, S, k) ==
  IF k = 0 THEN S
  ELSE Descendants(c,
         S \cup UNION { { heap[c][m].children[i] : i \in 1..Len(heap[c][m].children) } :
                        m \in S },
         k - 1)

ChildrenOf(c, n) == { heap[c][n].children[i] : i \in 1..Len(heap[c][n].children) }

LastOf(seq) == seq[Len(seq)]

\* ------------------------------------------------------------------ claims

\* C1: unsupported tags are transparent: the forest a conversion returns equals
\* the forest the builder makes of the same stream without the open and close
\* events of unsupported tags.
UnsupportedTransparent ==
  \A c \in Convs :
    pc[c] = "returned" => Forest(Builder(c)) = Forest(elided[c])

\* C6: no break or image node is on the open-element stack, and none has a child
\* (so whatever follows a void element's open went to an enclosing node or nowhere).
VoidNonNesting ==
  \A c \in Convs : \A n \in 1..Len(heap[c]) :
    heap[c][n].type \in {"break", "image"} =>
      /\ \A i \in 1..Len(stack[c]) : stack[c][i] # n
      /\ heap[c][n].children = <<>>
      /\ ~heap[c][n].hasChildren

\* A break under a block, followed by a text that went to the block.
VoidNonNestingWitness ==
  \E n \in 1..Len(heap[1]) :
    /\ heap[1][n].type = "block"
    /\ Len(heap[1][n].children) = 2
    /\ heap[1][heap[1][n].children[1]].type \in {"break", "image"}
    /\ heap[1][heap[1][n].children[2]].type = "text"

\* C7: a text node's style map equals, property for property, that of the element
\* it is a child of, and is an object no other node refers to.
TextSnapshot ==
  \A c \in Convs : \A t \in 1..Len(heap[c]) :
    heap[c][t].type = "text" =>
      /\ \A n \in 1..Len(heap[c]) : n # t => heap[c][n].styles # heap[c][t].styles
      /\ Parents(c, t) # {}
      /\ \A p \in Parents(c, t) :
           /\ heap[c][p].type # "text"
           /\ styleObjs[c][heap[c][t].styles] = styleObjs[c][heap[c][p].styles]

\* A text under the red span, inside a div that is not red.
TextSnapshotWitness ==
  \E t, p, d \in 1..Len(heap[1]) :
    /\ heap[1][t].type = "text"
    /\ p \in Parents(1, t)
    /\ d \in Parents(1, p)
    /\ styleObjs[1][heap[1][t].styles].color = "red"
    /\ styleObjs[1][heap[1][d].styles].color = "green"

\* C8: inside an unsupported tag, a supported open or a non-blank text makes one
\* node, attached to the nearest enclosing supported open element (an element goes
\* to the root sequence when there is none); an unsupported open makes no node.
DescendantsKept ==
  \A c \in Convs :
    /\ last[c].kind = "unsupported" => Len(heap[c]) = last[c].before
    /\ last[c].kind \in {"open", "text"} =>
         /\ Len(heap[c]) = last[c].before + 1
         /\ IF last[c].parent = 0
              THEN rootNodes[c] # <<>> /\ LastOf(rootNodes[c]) = Len(heap[c])
              ELSE /\ heap[c][last[c].parent].children # <<>>
                   /\ LastOf(heap[c][last[c].parent].children) = Len(heap[c])

\* C9: the root sequence is exactly the nodes of the supported opens that met an
\* empty stack, in their order; it holds no text node, and it is empty while no
\* supported open has arrived.
RootSequence ==
  \A c \in Convs :
    /\ rootNodes[c] = rootOpens[c]
    /\ \A i \in 1..Len(rootNodes[c]) : heap[c][rootNodes[c][i]].type # "text"
    /\ opens[c] = 0 => rootNodes[c] = <<>>

\* Two roots and a text under the first, returned.
RootSequenceWitness ==
  /\ pc[1] = "returned"
  /\ Len(rootNodes[1]) = 2
  /\ Len(heap[1]) = 3
  /\ \E n \in 1..3 : heap[1][n].type = "text"

\* C10: the output is a forest: every node is referenced from exactly one place,
\* the root sequence or one node's children, and no node is its own descendant.
ExclusiveOwnership ==
  \A c \in Convs : \A n \in 1..Len(heap[c]) :
    /\ Cardinality(Places(c, n)) = 1
    /\ n \notin Descendants(c, ChildrenOf(c, n), Len(heap[c]))

\* A root with a child that has a child of its own.
ExclusiveOwnershipWitness ==
  \E n \in 1..Len(heap[1]) :
    /\ rootNodes[1] = <<n>>
    /\ \E m \in ChildrenOf(1, n) : ChildrenOf(1, m) # {}

\* ------------------------------------------------------ the cascade claims
\* The recognized style properties.
Props == {"fontSize", "fontFamily", "fontWeight", "color", "textAlign", "marginTop",
          "marginBottom", "backgroundColor", "borderBottom", "padding", "width"}

\* The element nodes of conversion c.
Elements(c) == { n \in 1..Len(heap[c]) : heap[c][n].type # "text" }

\* What the inline style attribute of origin o sets.
InlineOf(o) == parseStyles(IF "style" \in DOMAIN o.attribs THEN o.attribs.style ELSE <<>>)

\* What one rule of a rule list sets.
RuleStyles(rule) == parseStyles(joinDeclarations(rule.declarations))

\* The indices of the rules of `rules` that match origin o and set property P.
Setters(o, rules, P) ==
  { i \in 1..Len(rules) :
      /\ matchesSelector(rules[i].selector, o.tagName,
                         IF "class" \in DOMAIN o.attribs THEN o.attribs.class ELSE <<>>,
                         Attr(o.attribs, "id"))
      /\ P \in DOMAIN RuleStyles(rules[i]) }

Latest(S) == CHOOSE i \in S : \A j \in S : j <= i

\* Style map `styles` has value v for P; v = Undefined says it has no P.
HasValue(styles, P, v) ==
  IF v = Undefined THEN P \notin DOMAIN styles
  ELSE P \in DOMAIN styles /\ styles[P] = v

\* The value the three layers give P: inline, else the rules, else the defaults.
LayeredValue(o, P) ==
  IF P \in DOMAIN InlineOf(o) THEN InlineOf(o)[P]
  ELSE IF Setters(o, o.rules, P) # {}
    THEN RuleStyles(o.rules[Latest(Setters(o, o.rules, P))])[P]
  ELSE IF P \in DOMAIN getUserAgentStyles(o.tagName)
    THEN getUserAgentStyles(o.tagName)[P]
  ELSE Undefined

\* The properties the factory's table sets from the tag or an attribute (spec 4.5).
Forced(o, P) ==
  \/ o.tagName \in {"strong", "b"} /\ P = "fontWeight"
  \/ o.tagName \in {"table", "td", "th"} /\ P = "width" /\ Truthy(Attr(o.attribs, "width"))
  \/ o.tagName = "table" /\ P = "padding" /\ Truthy(Attr(o.attribs, "cellpadding"))
  \/ o.tagName \in {"td", "th"} /\ P = "textAlign" /\ Truthy(Attr(o.attribs, "align"))

ForcedValue(o, P) ==
  CASE P = "fontWeight" -> "bold"
    [] P = "width" -> o.attribs.width
    [] P = "padding" -> parseFloat(o.attribs.cellpadding)
    [] P = "textAlign" -> o.attribs.align

\* The final style map of node n of conversion c.
StylesOf(c, n) == styleObjs[c][heap[c][n].styles]

\* C2 as stated: every property of every element node has the inline value when
\* the inline style sets it, else the value of a matching rule, else the default.
CascadeInlineAlwaysWins ==
  \A c \in Convs : \A n \in Elements(c) : \A P \in Props :
    HasValue(StylesOf(c, n), P, LayeredValue(origin[c][n], P))

\* C2, amended: the same for every property but those the factory sets from the tag
\* or an attribute after the merge (fontWeight of strong and b; width of table, td
\* and th with a width attribute; padding of a table with a cellpadding attribute;
\* textAlign of td and th with an align attribute), which have the factory's value.
CascadePrecedence ==
  \A c \in Convs : \A n \in Elements(c) : \A P \in Props :
    HasValue(StylesOf(c, n), P,
             IF Forced(origin[c][n], P) THEN ForcedValue(origin[c][n], P)
             ELSE LayeredValue(origin[c][n], P))

\* An element whose inline style, a matching rule and the defaults all set color,
\* to different values: it has the inline one.
CascadePrecedenceWitness ==
  \E n \in Elements(1) :
    LET o == origin[1][n]
    IN /\ "color" \in DOMAIN InlineOf(o)
       /\ Setters(o, o.rules, "color") # {}
       /\ RuleStyles(o.rules[Latest(Setters(o, o.rules, "color"))]).color # InlineOf(o).color
       /\ StylesOf(1, n).color = "red"

\* C3: when two or more rules match an element and set the same property, the rule
\* layer has the value of the latest of them, and so has the node unless the inline
\* style or the factory sets the property.
RuleOrderTieBreak ==
  \A c \in Convs : \A n \in Elements(c) : \A P \in Props :
    LET o == origin[c][n]
        S == Setters(o, o.rules, P)
        layer == applyCssRules(o.rules, o.tagName,
                               IF "class" \in DOMAIN o.attribs THEN o.attribs.class ELSE <<>>,
                               Attr(o.attribs, "id"))
    IN Cardinality(S) >= 2 =>
         /\ HasValue(layer, P, RuleStyles(o.rules[Latest(S)])[P])
         /\ (P \notin DOMAIN InlineOf(o) /\ ~Forced(o, P)) =>
              HasValue(StylesOf(c, n), P, RuleStyles(o.rules[Latest(S)])[P])

\* Two matching rules that give color different values, and no inline color.
RuleOrderTieBreakWitness ==
  \E n \in Elements(1) :
    LET o == origin[1][n]
        S == Setters(o, o.rules, "color")
    IN /\ Cardinality(S) = 2
       /\ \E i \in S : RuleStyles(o.rules[i]).color # RuleStyles(o.rules[Latest(S)]).color
       /\ "color" \notin DOMAIN InlineOf(o)
       /\ StylesOf(1, n).color = RuleStyles(o.rules[Latest(S)]).color

\* The rules of the <style> blocks of the markup, block after block.
RECURSIVE EmbeddedRules(_)
EmbeddedRules(h) ==
  IF h = <<>> THEN <<>> ELSE parseCss(Head(h)) \o EmbeddedRules(Tail(h))

\* C4: the rule list of a conversion is the rules of the embedded style blocks in
\* their order, then the rules of the css argument; so where an embedded and an
\* external rule both match an element and set a property, the rule layer (and the
\* node, unless the inline style or the factory sets it) has the external value.
EmbeddedBeforeExternal ==
  \A c \in Convs :
    /\ pc[c] = "parsing" => cssRules = EmbeddedRules(html[c]) \o parseCss(css[c])
    /\ \A n \in Elements(c) : \A P \in Props :
         LET o == origin[c][n]
             emb == Setters(o, EmbeddedRules(html[c]), P)
             ext == Setters(o, parseCss(css[c]), P)
         IN (emb # {} /\ ext # {} /\ P \notin DOMAIN InlineOf(o) /\ ~Forced(o, P)) =>
              HasValue(StylesOf(c, n), P, RuleStyles(parseCss(css[c])[Latest(ext)])[P])

\* An embedded and an external rule that match an element and disagree on color.
EmbeddedBeforeExternalWitness ==
  \E n \in Elements(1) :
    LET o == origin[1][n]
        emb == Setters(o, EmbeddedRules(html[1]), "color")
        ext == Setters(o, parseCss(css[1]), "color")
    IN /\ emb # {} /\ ext # {}
       /\ "color" \notin DOMAIN InlineOf(o)
       /\ RuleStyles(EmbeddedRules(html[1])[Latest(emb)]).color
            # RuleStyles(parseCss(css[1])[Latest(ext)]).color
       /\ StylesOf(1, n).color = RuleStyles(parseCss(css[1])[Latest(ext)]).color

\* C5: every style resolution of a conversion reads the rule list parsed from that
\* conversion's own style text.
RuleListScoped ==
  \A c \in Convs : \A n \in Elements(c) :
    origin[c][n].rules = parseCss(allCss(html[c], css[c]))

\* The nodes of the forest conversion c returns.
Returned(c) ==
  Descendants(c, { rootNodes[c][i] : i \in 1..Len(rootNodes[c]) }, Len(heap[c]))

\* C11: an unbalanced stream never aborts the conversion: no handler throws,
\* whatever the events (a close on an empty stack, a text outside every element),
\* and when the conversion has returned with elements still open, each of them is
\* in the returned forest, referenced from exactly one place: the root sequence
\* for the bottom of the stack, the element below it for every other one.
NeverAbort ==
  \A c \in Convs :
    /\ pc[c] # "threw"
    /\ pc[c] = "returned" =>
         \A i \in 1..Len(stack[c]) :
           /\ stack[c][i] \in Returned(c)
           /\ Cardinality(Places(c, stack[c][i])) = 1
           /\ \E p \in Places(c, stack[c][i]) :
                p[1] = IF i = 1 THEN 0 ELSE stack[c][i - 1]

\* The conversion has returned with two elements still open, after an element was
\* closed and a text node appended.
NeverAbortWitness ==
  /\ pc[1] = "returned"
  /\ Len(stack[1]) = 2
  /\ Len(heap[1]) = MaxNodes
  /\ \E n \in 1..Len(heap[1]) :
       heap[1][n].type = "block" /\ \A i \in 1..Len(stack[1]) : stack[1][i] # n

\* ------------------------------------------------------- the text inputs
\* The longest text of a text event, and the nodes of a conversion fed with them.
MaxTextLen == 4
MaxTextNodes == 2

\* A letter, the space, a character of the class [\n\r\t], and one that only \s has.
TextChars == {"a", " ", "\n", "\f"}

\* The tokenizer delivers no empty text.
CollapseTexts == UNION { [1..k -> TextChars] : k \in 1..MaxTextLen }

TextOpens == { El("div", EmptyObj), El("span", EmptyObj) }

TextCloses == { "div" }

NextText ==
  \/ Alone(1) /\ ParseBegin(1, TreeInputs)
  \/ OpenTag(1, TextOpens, MaxTextNodes)
  \/ Text(1, CollapseTexts, MaxTextNodes)
  \/ CloseTag(1, TextCloses)
  \/ ParseEnd(1)

\* One conversion whose text events carry every text of CollapseTexts.
SpecText == Init /\ [][NextText]_vars

\* The text nodes of conversion c.
TextNodes(c) == { n \in 1..Len(heap[c]) : heap[c][n].type = "text" }

\* C12: the whitespace collapse of line 48 is idempotent: the payload of a text
\* node, which is the collapse of the text delivered, is its own collapse.
CollapseIdempotent ==
  \A c \in Convs : \A n \in TextNodes(c) :
    cleanText(heap[c][n].text) = heap[c][n].text

\* A text node whose payload has a collapsed run between two letters and one at
\* its end.
CollapseIdempotentWitness ==
  \E n \in TextNodes(1) : heap[1][n].text = <<"a", " ", "a", " ">>

\* C13: every node created for a strong or a b element has fontWeight bold in its
\* final style map, whatever the rules and the inline style declare for font-weight.
StrongAlwaysBold ==
  \A c \in Convs : \A n \in Elements(c) :
    origin[c][n].tagName \in {"strong", "b"} =>
      HasValue(StylesOf(c, n), "fontWeight", "bold")

\* A b element that a rule of the list gives font-weight normal, and a strong
\* element whose inline style does: the cascade alone would make them normal.
StrongAlwaysBoldWitness ==
  \E n \in Elements(1) :
    LET o == origin[1][n]
    IN /\ o.tagName \in {"strong", "b"}
       /\ HasValue(finalStylesOf(o.rules, o.tagName, o.attribs), "fontWeight", "normal")
       /\ o.tagName = "b" => Setters(o, o.rules, "fontWeight") # {}
       /\ o.tagName = "strong" => "fontWeight" \in DOMAIN InlineOf(o)

\* C14: the close event of a tag that is neither void nor style removes the top of
\* a non-empty stack, whatever the tag of that element, and leaves the rest of the
\* stack, the root sequence and every node as they were; the close event of a void
\* tag or of style leaves the stack and the tree as they were.
CloseFrame ==
  [][\A name \in TreeCloses :
       CloseTag(1, {name}) =>
         /\ rootNodes' = rootNodes /\ heap' = heap /\ styleObjs' = styleObjs
         /\ IF name \in VoidTags \cup {"style"}
              THEN stack' = stack
              ELSE stack[1] # <<>> =>
                     stack'[1] = SubSeq(stack[1], 1, Len(stack[1]) - 1)]_vars

\* A span is a child of the only element on the stack and is itself off the stack:
\* no close event names span, so the close of another tag has removed it.
CloseFrameWitness ==
  /\ pc[1] = "parsing"
  /\ Len(stack[1]) = 1
  /\ \E n \in ChildrenOf(1, stack[1][1]) :
       origin[1][n].tagName = "span" /\ heap[1][n].children # <<>>

\* The payload of text node n of conversion c has a character that is not
\* whitespace, no newline, carriage return or tab, and no two whitespace
\* characters in a row.
PayloadCollapsed(c, n) ==
  LET payload == heap[c][n].text
  IN /\ \E i \in 1..Len(payload) : payload[i] \notin {" ", "\n", "\r", "\t", "\f"}
     /\ \A i \in 1..Len(payload) : payload[i] \notin {"\n", "\r", "\t"}
     /\ \A i \in 1..Len(payload) - 1 :
          ~ (payload[i] \in {" ", "\n", "\r", "\t", "\f"}
             /\ payload[i + 1] \in {" ", "\n", "\r", "\t", "\f"})

\* C15: the payload of every text node is not empty after trimming, holds no
\* newline, carriage return or tab, and no two consecutive whitespace characters;
\* a text event whose text is all whitespace creates no node and leaves the stack
\* and the tree as they were.
TextPayload ==
  /\ [](\A c \in Convs : \A n \in TextNodes(c) : PayloadCollapsed(c, n))
  /\ [][\A text \in TreeTexts :
          (\A i \in 1..Len(text) : text[i] \in {" ", "\n", "\r", "\t", "\f"})
          /\ Text(1, {text}, MaxNodes)
          => UNCHANGED <<rootNodes, stack, heap, styleObjs>>]_vars

\* A text node made of a text with runs of mixed whitespace at both ends and in the
\* middle: its payload keeps one space for each run.
TextPayloadWitness ==
  \E n \in TextNodes(1) : heap[1][n].text = <<" ", "a", " ", "b", " ">>

\* ------------------------------------------------- the declaration inputs
\* The most declarations of a declaration text, and the nodes of a conversion that
\* resolves them.
MaxDecls == 3
MaxDeclNodes == 2

\* margin: 10px, margin: 20px, margin-top: 5px, color: red, and a color without value.
Decls == { <<"margin", "10px">>, <<"margin", "20px">>, <<"margin-top", "5px">>,
           <<"color", "red">>, <<"color">> }

\* The regular expression of parseCss finds no block with an empty body.
DeclTexts == UNION { [1..k -> Decls] : k \in 1..MaxDecls }

\* The css argument .r { D }, no <style> block.
DeclInputs == { [html |-> <<>>, css |-> << Block(Sel(".", "r"), D) >>] : D \in DeclTexts }

\* <div class="r"> and <div style="D">, D the body of the conversion's rule.
DeclOpens(c) == { El("div", [class |-> <<"r">>]), El("div", [style |-> css[c][1].body]) }

NextDeclarations ==
  \/ Alone(1) /\ ParseBegin(1, DeclInputs)
  \/ OpenTag(1, DeclOpens(1), MaxDeclNodes)
  \/ ParseEnd(1)

\* One conversion whose only rule has the body that its elements carry inline.
SpecDeclarations == Init /\ [][NextDeclarations]_vars

\* C16: rule declarations and inline declarations are parsed the same way: an
\* element whose only matching rule has body D and that has no inline style has
\* the style map of the same element with no matching rule and inline style D.
SameParsing ==
  \A n \in Elements(1) : \A m \in Elements(1) :
    ( /\ "class" \in DOMAIN origin[1][n].attribs
      /\ "style" \in DOMAIN origin[1][m].attribs )
    => StylesOf(1, n) = StylesOf(1, m)

\* C17: the stack is the path of the open ancestors: its bottom is the last node
\* of the root sequence, every other element is the last child of the element
\* directly below it, and every element is a table, a row, a cell or a block.
StackIsAncestorPath ==
  \A c \in Convs : \A i \in 1..Len(stack[c]) :
    /\ heap[c][stack[c][i]].type \in {"table", "row", "cell", "block"}
    /\ IF i = 1
         THEN rootNodes[c] # <<>> /\ LastOf(rootNodes[c]) = stack[c][1]
         ELSE /\ heap[c][stack[c][i - 1]].children # <<>>
              /\ LastOf(heap[c][stack[c][i - 1]].children) = stack[c][i]

\* Two elements are open, the upper one opened after the lower one had got a
\* child already.
StackIsAncestorPathWitness ==
  /\ Len(stack[1]) = 2
  /\ Len(heap[1][stack[1][1]].children) = 2
  /\ pc[1] = "parsing"

\* ---------------------------------------------------- the sequential inputs
\* The nodes of each of two conversions run one after the other.
MaxSequentialNodes == 1

\* The style inputs of the concurrent conversions, and markup without any style.
SequentialInputs == ConcurrentInputs \cup { [html |-> <<>>, css |-> <<>>] }

NextSequential ==
  \E c \in Convs :
    \/ Alone(c) /\ ParseBegin(c, SequentialInputs)
    \/ OpenTag(c, ConcurrentOpens, MaxSequentialNodes)
    \/ Text(c, ConcurrentTexts, MaxSequentialNodes)
    \/ CloseTag(c, ConcurrentCloses)
    \/ ParseEnd(c)

\* Two conversions of one process, the second called after the first has returned.
SpecSequential == Init /\ [][NextSequential]_vars

\* The element opens of conversion c so far.
OpensOf(c) ==
  [n \in 1..Len(origin[c]) |-> [tagName |-> origin[c][n].tagName,
                                attribs |-> origin[c][n].attribs]]

\* C18: conversions run one after another are independent: while a conversion
\* handles its events the static rule list is the one parsed from its own markup
\* and css argument, every element has the style map its own rule list gives it,
\* and two conversions of the same inputs that made the same nodes of the same
\* opens resolved the same style maps.
SequentialIndependence ==
  /\ \A c \in Convs :
       /\ pc[c] = "parsing" => cssRules = parseCss(allCss(html[c], css[c]))
       /\ \A n \in Elements(c) :
            StylesOf(c, n) = createNode(parseCss(allCss(html[c], css[c])),
                                        origin[c][n].tagName, origin[c][n].attribs).styles
  /\ \A c \in Convs : \A d \in Convs :
       ( /\ pc[c] # "idle" /\ pc[d] # "idle"
         /\ html[c] = html[d] /\ css[c] = css[d]
         /\ OpensOf(c) = OpensOf(d) /\ heap[c] = heap[d] )
       => styleObjs[c] = styleObjs[d]

\* The earlier conversion has returned and left a rule in the static field that
\* matches the element the later conversion, with another style text, has resolved.
SequentialIndependenceWitness ==
  \E c \in Convs : \E d \in Convs \ {c} :
    /\ pc[c] = "returned" /\ pc[d] = "parsing"
    /\ parseCss(allCss(html[c], css[c])) # <<>>
    /\ parseCss(allCss(html[c], css[c])) # parseCss(allCss(html[d], css[d]))
    /\ \E n \in Elements(d) : \E m \in Elements(c) :
         /\ Setters(origin[d][n], parseCss(allCss(html[c], css[c])), "color") # {}
         /\ StylesOf(d, n) # StylesOf(c, m)

\* The top of the stack of conversion c, 0 when the stack is empty.
TopOf(c) == IF stack[c] = <<>> THEN 0 ELSE stack[c][Len(stack[c])]

\* C19: the builder does not suppress the content of a style block: the open of
\* the style tag creates no node and leaves the stack top as it was, and the text
\* that follows it, before the close of the style tag, becomes a text node, the
\* last child of the stack top, when the stack is not empty, and is discarded
\* when it is.
StyleTextKept ==
  \A c \in Convs :
    /\ last[c].kind = "style" =>
         Len(heap[c]) = last[c].before /\ TopOf(c) = last[c].parent
    /\ last[c].kind = "styletext" =>
         /\ TopOf(c) = last[c].parent
         /\ IF last[c].parent = 0
              THEN Len(heap[c]) = last[c].before
              ELSE /\ Len(heap[c]) = last[c].before + 1
                   /\ heap[c][Len(heap[c])].type = "text"
                   /\ notBlank(heap[c][Len(heap[c])].text)
                   /\ LastOf(heap[c][last[c].parent].children) = Len(heap[c])

\* The text that followed the open of a style tag inside an open element is now a
\* text node under that element.
StyleTextKeptWitness ==
  /\ last[1].kind = "styletext"
  /\ last[1].parent # 0
  /\ heap[1][Len(heap[1])].type = "text"
  /\ Len(heap[1]) \in ChildrenOf(1, last[1].parent)

====
